---- MODULE Spec2Model ----
(***************************************************************************)
(* A model of g11.py: the chat turn handler agent_chat_response (a         *)
(* generator that yields progress events), the sandboxed filesystem        *)
(* operation execute_action and the halt trigger request_halt.             *)
(*                                                                         *)
(* The generator is modelled at the granularity of its yields: pc names    *)
(* the source line of the yield the generator is suspended at, and each    *)
(* action is the code that runs from one yield to the next.  request_halt  *)
(* runs in another worker of the UI framework and may interleave between   *)
(* any two of these segments; the only read of the flag is the step        *)
(* boundary check of line 235, which is the first statement of its         *)
(* segment's loop iteration.                                               *)
(***************************************************************************)
EXTENDS Integers, Sequences, FiniteSets, TLC

\* ------------------------------------------------------------------ bounds

\* Longest plan the model reply may carry in Spec.
MaxSteps == 3
\* Number of turns of one session in SpecSession.
MaxTurns == 2
\* Longest plan the model reply may carry in SpecSession.
MaxSessionSteps == 1

\* ------------------------------------------------------- program constants

\* raw_response_text[:500] in the parse error message.
\* Longest sequence of direct applications of execute_action (SpecFs).
MaxApplied == 2

RAW_SHOWN == 500

\* ----------------------------------------------------------------- paths

\* An absolute, resolved path is the sequence of its components; <<>> is the
\* filesystem root.  WORKSPACE_DIR is Path("./agent_workspace").resolve().
WORKSPACE_DIR == <<"ws">>

\* The "path" value of an action: given = FALSE stands for a missing, null or
\* empty value (falsy in "not path_str").
PathStr(abs, parts) == [given |-> TRUE, abs |-> abs, parts |-> parts]
NoPath == [given |-> FALSE, abs |-> FALSE, parts |-> <<>>]

IsPrefix(s, t) == Len(s) <= Len(t) /\ SubSeq(t, 1, Len(s)) = s

\* Path.parents: every proper ancestor of t.
parents(t) == {SubSeq(t, 1, n) : n \in 0..(Len(t) - 1)}

\* Path.parent (the root is its own parent).
parent(t) == IF t = <<>> THEN t ELSE SubSeq(t, 1, Len(t) - 1)

\* WORKSPACE_DIR.joinpath(path_str): an absolute argument replaces the base;
\* ".." components are kept as they are.
joinpath(base, p) == IF p.abs THEN p.parts ELSE base \o p.parts

RECURSIVE Normalize(_, _)
Normalize(acc, rest) ==
    IF rest = <<>> THEN acc
    ELSE IF Head(rest) = ".."
         THEN Normalize(parent(acc), Tail(rest))
         ELSE Normalize(Append(acc, Head(rest)), Tail(rest))

\* Path.resolve() on a tree without symbolic links: ".." is collapsed.
resolve(parts) == Normalize(<<>>, parts)

\* The guard of lines 54-55: TRUE when the action is refused as a traversal.
TraversalRefused(action_type, path_str) ==
    LET target_path == resolve(joinpath(WORKSPACE_DIR, path_str))
    IN  /\ WORKSPACE_DIR \notin parents(target_path) /\ target_path # WORKSPACE_DIR
        /\ ~(action_type = "create_folder"
             /\ target_path = joinpath(WORKSPACE_DIR, path_str))

\* ------------------------------------------------------------ filesystem

\* The filesystem is a function from the existing absolute paths to nodes.
Dir == [kind |-> "dir", content |-> ""]
File(c) == [kind |-> "file", content |-> c]

\* The tree at start-up: the workspace exists (line 18), and so does a file
\* outside of it.
InitFs ==
    (<<>> :> Dir) @@ (<<"ws">> :> Dir) @@ (<<"etc">> :> Dir)
    @@ (<<"etc", "passwd">> :> File("root"))

Exists(f, p) == p \in DOMAIN f
IsDir(f, p) == Exists(f, p) /\ f[p].kind = "dir"
IsFile(f, p) == Exists(f, p) /\ f[p].kind = "file"

FsResult(ok, f) == [ok |-> ok, fs |-> f]

\* mkdir without exist_ok: an existing directory is an error too.
mkdir_NoExistOk(f, p, io) ==
    IF io = "oserror" THEN FsResult(FALSE, f)
    ELSE IF Exists(f, p) THEN FsResult(FALSE, f)
    ELSE IF \E a \in parents(p) : IsFile(f, a) THEN FsResult(FALSE, f)
    ELSE LET made == {q \in parents(p) \cup {p} : ~Exists(f, q)}
         IN  FsResult(TRUE, [q \in made |-> Dir] @@ f)

\* Path.mkdir(parents=True, exist_ok=True).  io = "oserror" is the operating
\* system refusing the call (permission denied, disk full).
mkdir(f, p, io) ==
    IF io = "oserror" THEN FsResult(FALSE, f)
    ELSE IF IsDir(f, p) THEN FsResult(TRUE, f)
    ELSE IF IsFile(f, p) THEN FsResult(FALSE, f)                \* FileExistsError
    ELSE IF \E a \in parents(p) : IsFile(f, a) THEN FsResult(FALSE, f) \* NotADirectoryError
    ELSE LET made == {q \in parents(p) \cup {p} : ~Exists(f, q)}
         IN  FsResult(TRUE, [q \in made |-> Dir] @@ f)

\* write_file that does not truncate: a file that exists keeps its content.
write_file_KeepsExisting(f, p, content, content_str, io) ==
    LET m == mkdir(f, parent(p), io)
    IN  IF ~m.ok THEN m
        ELSE IF IsDir(m.fs, p) THEN FsResult(FALSE, m.fs)
        ELSE IF ~content_str THEN FsResult(FALSE, (p :> File("")) @@ m.fs)
        ELSE IF IsFile(m.fs, p) THEN FsResult(TRUE, m.fs)
        ELSE FsResult(TRUE, (p :> File(content)) @@ m.fs)

\* target_path.parent.mkdir(...); open(target_path, "w"); f.write(content).
\* open truncates or creates the file before write can raise TypeError.
write_file(f, p, content, content_str, io) ==
    LET m == mkdir(f, parent(p), io)
    IN  IF ~m.ok THEN m
        ELSE IF IsDir(m.fs, p) THEN FsResult(FALSE, m.fs)       \* IsADirectoryError
        ELSE IF ~content_str THEN FsResult(FALSE, (p :> File("")) @@ m.fs)
        ELSE FsResult(TRUE, (p :> File(content)) @@ m.fs)

\* --------------------------------------------------------------- actions

\* One element of plan_steps.  isdict = FALSE is an element that is no JSON
\* object; type = "" is a missing, null or empty type; content is the value
\* of action.get("content", ""), content_str = FALSE when it is no string.
Action(type, path, content) ==
    [isdict |-> TRUE, type |-> type, path |-> path, content |-> content,
     content_str |-> TRUE]
NonStrContent(a) == [a EXCEPT !.content = "<number>", !.content_str = FALSE]
NotADict == [isdict |-> FALSE, type |-> "<string>", path |-> NoPath,
             content |-> "", content_str |-> TRUE]
NoAction == [isdict |-> FALSE, type |-> "<none>", path |-> NoPath,
             content |-> "", content_str |-> TRUE]

ExecResult(outcome, msg, f) == [outcome |-> outcome, msg |-> msg, fs |-> f]

\* execute_action(action) on filesystem f.  outcome is "ok" for (True, msg),
\* "fail" for (False, msg) and "raise" for an exception leaving the function.
execute_action(action, f, io) ==
    IF ~action.isdict
    THEN ExecResult("raise", "AttributeError", f)               \* line 45
    ELSE IF action.type = "" \/ ~action.path.given
    THEN ExecResult("fail", "Error: Action type or path missing.", f)
    ELSE LET target_path == resolve(joinpath(WORKSPACE_DIR, action.path))
         IN  IF TraversalRefused(action.type, action.path)
             THEN ExecResult("fail", "Error: Path is outside the allowed workspace.", f)
             ELSE IF action.type = "create_folder"
             THEN LET r == mkdir(f, target_path, io)
                  IN  IF r.ok THEN ExecResult("ok", "Folder created/ensured", r.fs)
                      ELSE ExecResult("fail", "Error performing", r.fs)
             ELSE IF action.type \in {"create_file", "edit_file"}
             THEN LET r == write_file(f, target_path, action.content,
                                      action.content_str, io)
                  IN  IF r.ok
                      THEN ExecResult("ok",
                               IF action.type = "create_file" THEN "File Created"
                               ELSE "File Edited", r.fs)
                      ELSE ExecResult("fail", "Error performing", r.fs)
             ELSE ExecResult("fail", "Error: Unknown action type", f)

\* ------------------------------------------------------- the model reply

\* A JSON value as json.loads returns it.  json = "invalid" is text that is
\* no JSON at all.  For an object: has_rt is "response_type" in parsed,
\* plan_steps.kind is "absent", "list" or "notlist", languages_used is
\* "absent", "strings" (a list of strings), "notlist" or "nonstrings" (a list
\* holding an element that is no string).
NoSteps == [kind |-> "absent", items |-> <<>>]
StepList(items) == [kind |-> "list", items |-> items]
NotAList == [kind |-> "notlist", items |-> <<>>]
NoMessage == [given |-> FALSE, text |-> ""]
Message(m) == [given |-> TRUE, text |-> m]

JsonValue(json, has_rt, rt, steps, langs, msg) ==
    [json |-> json, has_rt |-> has_rt, response_type |-> rt,
     plan_steps |-> steps, languages_used |-> langs, message |-> msg]
NotJson == JsonValue("invalid", FALSE, "", NoSteps, "absent", NoMessage)
JsonScalar == JsonValue("number", FALSE, "", NoSteps, "absent", NoMessage)
JsonArray == JsonValue("array", FALSE, "", NoSteps, "absent", NoMessage)
JsonObject(rt, steps, langs, msg) == JsonValue("object", TRUE, rt, steps, langs, msg)
JsonObjectNoType == JsonValue("object", FALSE, "", NoSteps, "absent", Message("Hello"))

\* The raw text is a sequence of tokens: the json marker (three backquotes and json), a bare fence,
\* or a stretch of text with the JSON value it spells (if any) and its length
\* in characters.
FenceJson == [tok |-> "fence_json", value |-> NotJson, chars |-> 7]
Fence == [tok |-> "fence", value |-> NotJson, chars |-> 3]
Text(v, n) == [tok |-> "text", value |-> v, chars |-> n]

RECURSIVE RawLen(_)
RawLen(raw) == IF raw = <<>> THEN 0 ELSE Head(raw).chars + RawLen(Tail(raw))

Min(a, b) == IF a <= b THEN a ELSE b

\* Least index in lo..Len(raw) of a token whose kind is in toks; 0 if none.
FirstFrom(raw, lo, toks) ==
    LET hits == {n \in lo..Len(raw) : raw[n].tok \in toks}
    IN  IF hits = {} THEN 0 ELSE CHOOSE n \in hits : \A m \in hits : n <= m

\* Line 198: the json marker is in raw and a fence is in what follows its
\* first occurrence.  The json marker itself begins with a fence.
has_markers(raw) ==
    LET open == FirstFrom(raw, 1, {"fence_json"})
    IN  open > 0 /\ FirstFrom(raw, open + 1, {"fence_json", "fence"}) > 0

\* Line 199: the text between the first json marker and the next fence.
json_str(raw) ==
    LET open == FirstFrom(raw, 1, {"fence_json"})
        close == FirstFrom(raw, open + 1, {"fence_json", "fence"})
    IN  SubSeq(raw, open + 1, close - 1)

ParseResult(ok, v) == [ok |-> ok, value |-> v]

\* json.loads: exactly one JSON text, else JSONDecodeError.
json_loads(text) ==
    IF Len(text) = 1 /\ text[1].value.json # "invalid"
    THEN ParseResult(TRUE, text[1].value)
    ELSE ParseResult(FALSE, NotJson)

\* parse_response without the test of lines 202-203.
parse_response_NoTypeCheck(raw) ==
    IF ~has_markers(raw) THEN ParseResult(FALSE, NotJson)
    ELSE json_loads(json_str(raw))

\* Lines 195-211: parsed_response, or ok = FALSE for None.
parse_response(raw) ==
    IF ~has_markers(raw) THEN ParseResult(FALSE, NotJson)
    ELSE LET loaded == json_loads(json_str(raw))
         IN  IF ~loaded.ok THEN loaded
             ELSE IF loaded.value.json # "object" \/ ~loaded.value.has_rt
             THEN ParseResult(FALSE, NotJson)
             ELSE loaded

\* plan_is_valid without the emptiness test of line 222.
plan_is_valid_ListOnly(parsed) == parsed.plan_steps.kind = "list"

\* Line 222: isinstance(plan, list) and plan.
plan_is_valid(parsed) ==
    parsed.plan_steps.kind = "list" /\ parsed.plan_steps.items # <<>>

\* Lines 219-225: the languages line of the plan summary; ", ".join raises
\* TypeError on a list that holds a non-string.
join_raises(parsed) == parsed.languages_used = "nonstrings"
lang_str(parsed) == IF parsed.languages_used = "strings" THEN "Python" ELSE "N/A"

\* ------------------------------------------------------------ the inputs

P_app == PathStr(FALSE, <<"app">>)
P_main == PathStr(FALSE, <<"app", "main.txt">>)
P_up_passwd == PathStr(FALSE, <<"..", "..", "etc", "passwd">>)
P_abs_evil == PathStr(TRUE, <<"evil">>)
P_abs_passwd == PathStr(TRUE, <<"etc", "passwd">>)

\* The elements a plan of Spec is made of.
Actions ==
    {Action("create_folder", P_app, ""),
     Action("create_folder", P_abs_evil, ""),
     Action("create_file", P_main, "hi"),
     Action("edit_file", P_main, "yo"),
     Action("create_file", P_app, "hi"),
     Action("edit_file", P_up_passwd, "yo"),
     Action("create_file", P_abs_passwd, "hi"),
     Action("delete_file", P_app, ""),
     Action("", P_app, "hi"),
     Action("create_file", NoPath, "hi"),
     NonStrContent(Action("create_file", P_main, "")),
     NotADict}

\* The elements a plan of SpecSession is made of.
SessionActions ==
    {Action("create_folder", P_app, ""), Action("create_file", P_app, "hi"), NotADict}

\* Every non-empty sequence of at most n elements of S.
RECURSIVE SeqsUpTo(_, _)
SeqsUpTo(S, n) ==
    IF n = 0 THEN {}
    ELSE LET shorter == SeqsUpTo(S, n - 1)
         IN  {<<a>> : a \in S} \cup shorter
             \cup {Append(q, a) : q \in shorter, a \in S}

PlanReply(steps, langs) == JsonObject("plan", StepList(steps), langs, NoMessage)

\* Replies that are well-formed objects with a response_type.
OtherReplies ==
    {JsonObject("plan", st, "strings", NoMessage) : st \in {NoSteps, NotAList, StepList(<<>>)}}
    \cup {JsonObject("informational", NoSteps, "absent", m) : m \in {Message("Hello"), NoMessage}}
    \cup {JsonObject("summary", NoSteps, "absent", Message("Hello"))}

Replies(acts, n) ==
    {PlanReply(q, "strings") : q \in SeqsUpTo(acts, n)}
    \cup {PlanReply(<<a>>, l) : a \in acts, l \in {"absent", "notlist", "nonstrings"}}
    \cup OtherReplies

Fenced(v) == <<FenceJson, Text(v, 40), Fence>>
Hello == JsonObject("informational", NoSteps, "absent", Message("Hello"))

\* Raw texts the parser refuses, and two it accepts although the block is
\* not alone in the text.
OddTexts ==
    {Fenced(v) : v \in {NotJson, JsonScalar, JsonArray, JsonObjectNoType}}
    \cup {<<Text(Hello, 40)>>,
          <<Fence, Text(Hello, 40), Fence>>,
          <<FenceJson, Text(Hello, 40)>>,
          <<FenceJson, Fence>>,
          <<FenceJson, Text(Hello, 40), Text(Hello, 40), Fence>>,
          <<FenceJson, FenceJson, Text(Hello, 40), Fence>>,
          <<Text(NotJson, 600)>>,
          <<Text(NotJson, 600), FenceJson, Text(NotJson, 40), Fence>>,
          <<Text(NotJson, 600), FenceJson, Text(Hello, 40), Fence, Text(NotJson, 40)>>,
          <<Fence, Text(NotJson, 40), FenceJson, Text(Hello, 40), FenceJson>>}

RawTexts == {Fenced(v) : v \in Replies(Actions, MaxSteps)} \cup OddTexts
SessionRawTexts ==
    {Fenced(v) : v \in Replies(SessionActions, MaxSessionSteps)}
    \cup {<<Text(Hello, 40)>>}

\* ------------------------------------------------------------- the state

VARIABLES
    pc,                  \* "idle", or the line of the yield the generator is suspended at
    controls,            \* the shared execution_controls dictionary
    history,             \* the conversation log (list of entries)
    fs,                  \* the filesystem
    plan,                \* plan (line 218) of the turn in flight
    step,                \* step_num of the loop iteration in flight; 0 before the loop
    success,             \* success of the last execute_action (line 250)
    all_steps_succeeded, \* line 232
    execution_halted,    \* line 233
    turn,                \* number of turns started
    raw,                 \* raw_response_text of the turn (<<>> until the model replies)
    events,              \* the tuples yielded by the turn, in order
    calls,               \* the execute_action calls of the turn, in order
    fs0,                 \* the filesystem when the turn started
    hist0,               \* len(history) when the turn started
    halt_after_reset     \* request_halt has run since the reset of line 123

vars == <<pc, controls, history, fs, plan, step, success, all_steps_succeeded,
          execution_halted, turn, raw, events, calls, fs0, hist0, halt_after_reset>>

locals == <<plan, step, success, all_steps_succeeded, execution_halted>>

Entry(kind, n, of, text, action) ==
    [role |-> "assistant", kind |-> kind, n |-> n, of |-> of, text |-> text,
     action |-> action]

\* yield history, controls, gr.update(interactive=cancel) at source line at.
Event(log, cancel, at) == [log |-> log, cancel |-> cancel, at |-> at]

Init ==
    /\ pc = "idle"
    /\ controls = [halt_requested |-> FALSE]
    /\ history = <<>>
    /\ fs = InitFs
    /\ plan = <<>>
    /\ step = 0
    /\ success = TRUE
    /\ all_steps_succeeded = TRUE
    /\ execution_halted = FALSE
    /\ turn = 0
    /\ raw = <<>>
    /\ events = <<>>
    /\ calls = <<>>
    /\ fs0 = InitFs
    /\ hist0 = 0
    /\ halt_after_reset = FALSE

\* ----------------------------------------------------------- operations

\* request_halt (lines 102-106), wired to the halt button (lines 344-348).
RequestHalt ==
    /\ controls' = [controls EXCEPT !.halt_requested = TRUE]
    /\ halt_after_reset' = TRUE
    /\ UNCHANGED <<pc, history, fs, locals, turn, raw, events, calls, fs0, hist0>>

\* ResetValue with the assignment of line 123 left out: the flag keeps the
\* value earlier turns left.
ResetValue_Keeps == controls.halt_requested

\* The value line 123 stores in controls['halt_requested'].
ResetValue == FALSE

\* Lines 119-130: a turn starts; the halt request is reset and the first
\* event disables the halt button.  Turns are taken one at a time (pc =
\* "idle"): the handler itself holds no guard, the model assumes that the UI
\* framework's event queue runs one submit handler at a time.
TurnStart(max_turns) ==
    /\ pc = "idle"
    /\ turn < max_turns
    /\ turn' = turn + 1
    /\ controls' = [controls EXCEPT !.halt_requested = ResetValue]
    /\ halt_after_reset' = FALSE
    /\ events' = <<Event(history, FALSE, 130)>>
    /\ calls' = <<>>
    /\ raw' = <<>>
    /\ fs0' = fs
    /\ hist0' = Len(history)
    /\ plan' = <<>>
    /\ step' = 0
    /\ success' = TRUE
    /\ all_steps_succeeded' = TRUE
    /\ execution_halted' = FALSE
    /\ pc' = "y130"
    /\ UNCHANGED <<history, fs>>

\* Lines 133-135: the status entry.
Thinking ==
    /\ pc = "y130"
    /\ history' = Append(history, Entry("status", 0, 0, "Thinking...", NoAction))
    /\ events' = Append(events, Event(history', FALSE, 135))
    /\ pc' = "y135"
    /\ UNCHANGED <<controls, fs, locals, turn, raw, calls, fs0, hist0, halt_after_reset>>

\* Append one entry and yield (the shared tail of every segment below).
\* Say updating the last entry of the log in place instead of appending.
Say_ReplacesLast(entry, cancel, at, next_pc) ==
    /\ history' = IF history = <<>> THEN <<entry>>
                  ELSE [history EXCEPT ![Len(history)] = entry]
    /\ events' = Append(events, Event(history', cancel, at))
    /\ pc' = next_pc

Say(entry, cancel, at, next_pc) ==
    /\ history' = Append(history, entry)
    /\ events' = Append(events, Event(history', cancel, at))
    /\ pc' = next_pc

\* Lines 291-296: the handler of the turn's try block.
Unexpected ==
    Say(Entry("unexpected_error", 0, 0, "An unexpected error occurred", NoAction),
        FALSE, 296, "y296")

\* ModelCallFails with the exception leaving the generator: no entry, no
\* event, the turn never reaches its final yield.
ModelCallFails_Unwinds ==
    /\ pc = "y135"
    /\ pc' = "raised"
    /\ UNCHANGED <<controls, history, fs, locals, turn, raw, events, calls, fs0, hist0,
                   halt_after_reset>>

\* Lines 187-192 raise: the model call fails.
ModelCallFails ==
    /\ pc = "y135"
    /\ Unexpected
    /\ UNCHANGED <<controls, fs, locals, turn, raw, calls, fs0, hist0, halt_after_reset>>

\* Lines 207-211 and 285-289: the reply does not parse.
ReplyUnparsable(texts) ==
    /\ pc = "y135"
    /\ \E t \in texts :
        /\ ~parse_response(t).ok
        /\ raw' = t
        /\ Say(Entry("parse_error", Min(RawLen(t), RAW_SHOWN), 0,
                     "Error: Could not parse the response from the AI.", NoAction),
               FALSE, 289, "y289")
    /\ UNCHANGED <<controls, fs, locals, turn, calls, fs0, hist0, halt_after_reset>>

\* Lines 217-230: a plan with steps; the summary is appended and the halt
\* button enabled.  The join of line 225 may raise.
ReplyPlan(texts) ==
    /\ pc = "y135"
    /\ \E t \in texts :
        LET parsed == parse_response(t)
        IN  /\ parsed.ok
            /\ parsed.value.response_type = "plan"
            /\ plan_is_valid(parsed.value)
            /\ raw' = t
            /\ plan' = parsed.value.plan_steps.items
            /\ IF join_raises(parsed.value)
               THEN Unexpected
               ELSE Say(Entry("summary", 0, Len(plan'), lang_str(parsed.value), NoAction),
                        TRUE, 230, "y230")
    /\ UNCHANGED <<controls, fs, step, success, all_steps_succeeded, execution_halted,
                   turn, calls, fs0, hist0, halt_after_reset>>

\* Lines 269-272: plan_steps is absent, no list, or empty.
ReplyInvalidPlan(texts) ==
    /\ pc = "y135"
    /\ \E t \in texts :
        LET parsed == parse_response(t)
        IN  /\ parsed.ok
            /\ parsed.value.response_type = "plan"
            /\ ~plan_is_valid(parsed.value)
            /\ raw' = t
            /\ plan' = parsed.value.plan_steps.items
            /\ Say(Entry("invalid_plan", 0, 0,
                         "The AI generated an empty or invalid plan. Please try again.",
                         NoAction),
                   FALSE, 272, "y272")
    /\ UNCHANGED <<controls, fs, step, success, all_steps_succeeded, execution_halted,
                   turn, calls, fs0, hist0, halt_after_reset>>

\* Lines 275-278: an informational reply.
ReplyInformational(texts) ==
    /\ pc = "y135"
    /\ \E t \in texts :
        LET parsed == parse_response(t)
        IN  /\ parsed.ok
            /\ parsed.value.response_type = "informational"
            /\ raw' = t
            /\ Say(Entry("message", 0, 0,
                         IF parsed.value.message.given THEN parsed.value.message.text
                         ELSE "Sorry, I couldn't formulate an answer.", NoAction),
                   FALSE, 278, "y278")
    /\ UNCHANGED <<controls, fs, locals, turn, calls, fs0, hist0, halt_after_reset>>

\* Lines 280-283: any other response_type.
ReplyUnknownType(texts) ==
    /\ pc = "y135"
    /\ \E t \in texts :
        LET parsed == parse_response(t)
        IN  /\ parsed.ok
            /\ parsed.value.response_type \notin {"plan", "informational"}
            /\ raw' = t
            /\ Say(Entry("unknown_type", 0, 0, "Received an unknown response type",
                         NoAction),
                   FALSE, 283, "y283")
    /\ UNCHANGED <<controls, fs, locals, turn, calls, fs0, hist0, halt_after_reset>>

\* AtBoundary with the success test of line 256 left out: the loop goes on
\* after a failed step.
AtBoundary_IgnoresFailure ==
    \/ pc = "y230"
    \/ pc = "y253" /\ step < Len(plan)

\* The top of the for loop of line 234 is reached with another step to run:
\* after the summary, or after the result of a step that succeeded and is
\* not the last.
AtBoundary ==
    \/ pc = "y230"
    \/ pc = "y253" /\ success /\ step < Len(plan)

\* The step boundary check of line 235.
halt_seen == controls.halt_requested

\* StepHalted with the notice naming the loop index i instead of i + 1.
StepHalted_NamesIndex ==
    /\ AtBoundary
    /\ halt_seen
    /\ step' = step + 1
    /\ execution_halted' = TRUE
    /\ Say(Entry("halted", step, Len(plan),
                 "Execution halted by user request before step", NoAction),
           FALSE, 240, "y240")
    /\ UNCHANGED <<controls, fs, plan, success, all_steps_succeeded, turn, raw, calls,
                   fs0, hist0, halt_after_reset>>

\* Lines 235-241: the halt request is seen before the step; the loop breaks.
StepHalted ==
    /\ AtBoundary
    /\ halt_seen
    /\ step' = step + 1
    /\ execution_halted' = TRUE
    /\ Say(Entry("halted", step', Len(plan),
                 "Execution halted by user request before step", NoAction),
           FALSE, 240, "y240")
    /\ UNCHANGED <<controls, fs, plan, success, all_steps_succeeded, turn, raw, calls,
                   fs0, hist0, halt_after_reset>>

\* StepEcho with the action applied before its echo is emitted (and applied
\* again by the call of line 250).
StepEcho_AppliesFirst ==
    /\ AtBoundary
    /\ ~halt_seen
    /\ step' = step + 1
    /\ LET r == execute_action(plan[step'], fs, "ok")
       IN  /\ fs' = r.fs
           /\ calls' = Append(calls, [step |-> step', action |-> plan[step'],
                                      outcome |-> r.outcome, msg |-> r.msg])
    /\ Say(Entry("echo", step', Len(plan), "Executing Step", plan[step']),
           TRUE, 247, "y247")
    /\ UNCHANGED <<controls, plan, success, all_steps_succeeded, execution_halted,
                   turn, raw, fs0, hist0, halt_after_reset>>

\* Lines 243-247: the echo of the action about to run.
StepEcho ==
    /\ AtBoundary
    /\ ~halt_seen
    /\ step' = step + 1
    /\ Say(Entry("echo", step', Len(plan), "Executing Step", plan[step']),
           TRUE, 247, "y247")
    /\ UNCHANGED <<controls, fs, plan, success, all_steps_succeeded, execution_halted,
                   turn, raw, calls, fs0, hist0, halt_after_reset>>

Call(n, action, r) == [step |-> n, action |-> action, outcome |-> r.outcome, msg |-> r.msg]

\* Lines 250-253: the action is applied and its result reported.
StepExecute ==
    /\ pc = "y247"
    /\ \E io \in {"ok", "oserror"} :
        LET r == execute_action(plan[step], fs, io)
        IN  /\ r.outcome # "raise"
            /\ fs' = r.fs
            /\ success' = (r.outcome = "ok")
            /\ calls' = Append(calls, Call(step, plan[step], r))
            /\ Say(Entry("result", step, Len(plan), r.msg, plan[step]),
                   TRUE, 253, "y253")
    /\ UNCHANGED <<controls, plan, step, all_steps_succeeded, execution_halted, turn,
                   raw, fs0, hist0, halt_after_reset>>

\* Line 250 raises (line 45: the element has no get method); the handler of
\* lines 291-296 takes over.
StepRaises ==
    /\ pc = "y247"
    /\ LET r == execute_action(plan[step], fs, "ok")
       IN  /\ r.outcome = "raise"
           /\ fs' = r.fs
           /\ calls' = Append(calls, Call(step, plan[step], r))
           /\ Unexpected
    /\ UNCHANGED <<controls, locals, turn, raw, fs0, hist0, halt_after_reset>>

\* StepFailed leaving the halt button enabled on the yield of line 260.
StepFailed_KeepsEnabled ==
    /\ pc = "y253"
    /\ ~success
    /\ all_steps_succeeded' = FALSE
    /\ Say(Entry("stopped", step, Len(plan), "Execution failed. Stopping plan.", NoAction),
           TRUE, 260, "y260")
    /\ UNCHANGED <<controls, fs, plan, step, success, execution_halted, turn, raw, calls,
                   fs0, hist0, halt_after_reset>>

\* Lines 256-261: the step failed; the plan stops.
StepFailed ==
    /\ pc = "y253"
    /\ ~success
    /\ all_steps_succeeded' = FALSE
    /\ Say(Entry("stopped", step, Len(plan), "Execution failed. Stopping plan.", NoAction),
           FALSE, 260, "y260")
    /\ UNCHANGED <<controls, fs, plan, step, success, execution_halted, turn, raw, calls,
                   fs0, hist0, halt_after_reset>>

\* AfterLoop without the test of line 264: the completion entry is appended
\* after a failed step too.
AfterLoop_AlwaysCompletes ==
    IF execution_halted
    THEN UNCHANGED <<history, events, pc>>
    ELSE Say(Entry("completed", 0, Len(plan), "Plan successfully completed!", NoAction),
             FALSE, 267, "y267")

\* AfterLoop without lines 265-266: no completion entry is ever appended.
AfterLoop_SkipsCompletion ==
    IF execution_halted
    THEN UNCHANGED <<history, events, pc>>
    ELSE /\ events' = Append(events, Event(history, FALSE, 267))
         /\ pc' = "y267"
         /\ UNCHANGED history

\* AfterLoop looking at the halt flag once more after the loop: a pending
\* request turns the end of the run into a halt.
AfterLoop_SeesHalt ==
    IF execution_halted
    THEN UNCHANGED <<history, events, pc>>
    ELSE IF controls.halt_requested
    THEN Say(Entry("halted", step + 1, Len(plan),
                   "Execution halted by user request before step", NoAction),
             FALSE, 240, "y240")
    ELSE IF all_steps_succeeded
    THEN Say(Entry("completed", 0, Len(plan), "Plan successfully completed!", NoAction),
             FALSE, 267, "y267")
    ELSE /\ events' = Append(events, Event(history, FALSE, 267))
         /\ pc' = "y267"
         /\ UNCHANGED history

\* Lines 263-267, after the loop: the completion entry (if every step
\* succeeded) and the yield of line 267, unless the plan was halted.
AfterLoop ==
    IF execution_halted
    THEN UNCHANGED <<history, events, pc>>
    ELSE IF all_steps_succeeded
    THEN Say(Entry("completed", 0, Len(plan), "Plan successfully completed!", NoAction),
             FALSE, 267, "y267")
    ELSE /\ events' = Append(events, Event(history, FALSE, 267))
         /\ pc' = "y267"
         /\ UNCHANGED history

\* The loop ends after its last step succeeded.
PlanCompleted ==
    /\ pc = "y253"
    /\ success
    /\ step = Len(plan)
    /\ AfterLoop
    /\ UNCHANGED <<controls, fs, locals, turn, raw, calls, fs0, hist0, halt_after_reset>>

\* The break of line 261, then lines 263-267.
AfterStop ==
    /\ pc = "y260"
    /\ AfterLoop
    /\ UNCHANGED <<controls, fs, locals, turn, raw, calls, fs0, hist0, halt_after_reset>>

\* The yields after which only lines 298-301 are left to run.
LastYields == {"y240", "y267", "y272", "y278", "y283", "y289", "y296"}

\* Lines 298-301: the final event; the generator is exhausted.
TurnEnd ==
    /\ pc \in LastYields
    /\ events' = Append(events, Event(history, FALSE, 301))
    /\ pc' = "idle"
    /\ UNCHANGED <<controls, history, fs, locals, turn, raw, calls, fs0, hist0,
                   halt_after_reset>>

\* The plan steps of a turn (lines 232-267).
PlanSteps ==
    \/ StepHalted
    \/ StepEcho
    \/ StepExecute
    \/ StepRaises
    \/ StepFailed
    \/ PlanCompleted
    \/ AfterStop

\* A step of the turn in flight, the model reply drawn from RawTexts.
TurnStep ==
    \/ Thinking
    \/ ModelCallFails
    \/ ReplyUnparsable(RawTexts)
    \/ ReplyPlan(RawTexts)
    \/ ReplyInvalidPlan(RawTexts)
    \/ ReplyInformational(RawTexts)
    \/ ReplyUnknownType(RawTexts)
    \/ PlanSteps
    \/ TurnEnd

\* ------------------------------------------- execute_action on its own

\* Trees the workspace can be in when a step is applied: untouched, with the
\* folder app, with the file app/main.txt, and with a file named app.
StartTrees ==
    {InitFs,
     (<<"ws", "app">> :> Dir) @@ InitFs,
     (<<"ws", "app", "main.txt">> :> File("old")) @@ (<<"ws", "app">> :> Dir) @@ InitFs,
     (<<"ws", "app">> :> File("old")) @@ InitFs}

\* The folder and file actions applied in SpecFs.
FsActions ==
    {Action("create_folder", p, "") : p \in {P_app, P_main}}
    \cup {Action(t, p, c) : t \in {"create_file", "edit_file"}, p \in {P_app, P_main},
                            c \in {"hi", "yo"}}

\* One application of execute_action: its arguments, the tree before, the
\* result returned and the tree after.
FsCall(n, action, io, f, r) ==
    [step |-> n, action |-> action, io |-> io, before |-> f, outcome |-> r.outcome,
     msg |-> r.msg, after |-> r.fs]

InitApply ==
    /\ pc = "idle"
    /\ controls = [halt_requested |-> FALSE]
    /\ history = <<>>
    /\ fs \in StartTrees
    /\ plan = <<>>
    /\ step = 0
    /\ success = TRUE
    /\ all_steps_succeeded = TRUE
    /\ execution_halted = FALSE
    /\ turn = 0
    /\ raw = <<>>
    /\ events = <<>>
    /\ calls = <<>>
    /\ fs0 = fs
    /\ hist0 = 0
    /\ halt_after_reset = FALSE

\* execute_action (lines 43-72) applied to one action.
ApplyAction ==
    /\ Len(calls) < MaxApplied
    /\ \E a \in FsActions, io \in {"ok", "oserror"} :
         LET r == execute_action(a, fs, io)
         IN  /\ fs' = r.fs
             /\ calls' = Append(calls, FsCall(Len(calls) + 1, a, io, fs, r))
    /\ UNCHANGED <<pc, controls, history, locals, turn, raw, events, fs0, hist0,
                   halt_after_reset>>

\* Sequences of at most MaxApplied applications of execute_action, from each
\* of StartTrees.
SpecFs == InitApply /\ [][ApplyAction]_vars

\* One turn of a fresh session, the model reply drawn from RawTexts.
Next ==
    \/ RequestHalt
    \/ TurnStart(1)
    \/ Thinking
    \/ ModelCallFails
    \/ ReplyUnparsable(RawTexts)
    \/ ReplyPlan(RawTexts)
    \/ ReplyInvalidPlan(RawTexts)
    \/ ReplyInformational(RawTexts)
    \/ ReplyUnknownType(RawTexts)
    \/ PlanSteps
    \/ TurnEnd

Spec == Init /\ [][Next]_vars

\* Spec with the generator iterated to exhaustion: the caller (lines 337-341)
\* takes every event, and the model call and every filesystem operation
\* return, so a turn in flight always takes its next step.
SpecFair == Spec /\ WF_vars(TurnStep)

\* A session of MaxTurns turns, one after the other, the model reply drawn
\* from SessionRawTexts.
NextSession ==
    \/ RequestHalt
    \/ TurnStart(MaxTurns)
    \/ Thinking
    \/ ModelCallFails
    \/ ReplyUnparsable(SessionRawTexts)
    \/ ReplyPlan(SessionRawTexts)
    \/ ReplyInvalidPlan(SessionRawTexts)
    \/ ReplyInformational(SessionRawTexts)
    \/ ReplyUnknownType(SessionRawTexts)
    \/ PlanSteps
    \/ TurnEnd

SpecSession == Init /\ [][NextSession]_vars

\* ------------------------------------------------------ reading a turn

\* The turn has run to its end (the generator is exhausted).
TurnOver == pc = "idle" /\ turn > 0

\* The entries the turn appended to the log.
Gained == SubSeq(history, hist0 + 1, Len(history))

EntriesOf(kind) == {j \in 1..Len(Gained) : Gained[j].kind = kind}

\* The parsed reply of the turn (meaningful once raw is set).
Parsed == parse_response(raw)

\* The filesystem after steps 1..n of the plan, each applied without an
\* operating system error, starting from f.
RECURSIVE Applied(_, _, _)
Applied(f, steps, n) ==
    IF n = 0 THEN f
    ELSE execute_action(steps[n], Applied(f, steps, n - 1), "ok").fs

\* The calls made are those of steps 1..Len(calls) of the plan, in order.
CallsArePrefix ==
    /\ Len(calls) <= Len(plan)
    /\ \A j \in 1..Len(calls) : calls[j].step = j /\ calls[j].action = plan[j]

SuccessTexts == {"Folder created/ensured", "File Created", "File Edited"}

\* Position in Gained of the result of step j of a plan run (after the status
\* entry, the plan summary and the echo and result of each step before).
ResultAt(j) == 2 * j + 2

\* --------------------------------------------------------------- claims

\* C1: fail-fast.  When a turn is over and step k of its plan is the first
\* whose action failed, execute_action was called for steps 1..k in order and
\* for no other step, steps 1..k-1 reported success, step k reported failure,
\* the "Execution failed. Stopping plan." entry follows the result of step k
\* at once, no halt notice or completion entry exists, and the filesystem is
\* the one steps 1..k-1 left, changed only by what the failing step k itself
\* did (nothing is rolled back).
C1_FailFast ==
    TurnOver =>
        \A k \in 1..Len(calls) :
            (calls[k].outcome = "fail" /\ \A j \in 1..(k - 1) : calls[j].outcome # "fail")
            =>  /\ Len(calls) = k
                /\ CallsArePrefix
                /\ \A j \in 1..(k - 1) :
                      /\ calls[j].outcome = "ok"
                      /\ Gained[ResultAt(j)].kind = "result"
                      /\ Gained[ResultAt(j)].n = j
                      /\ Gained[ResultAt(j)].text \in SuccessTexts
                /\ Gained[ResultAt(k)].kind = "result"
                /\ Gained[ResultAt(k)].n = k
                /\ Gained[ResultAt(k)].text \notin SuccessTexts
                /\ Len(Gained) = ResultAt(k) + 1
                /\ Gained[ResultAt(k) + 1].kind = "stopped"
                /\ EntriesOf("halted") = {} /\ EntriesOf("completed") = {}
                /\ \E io \in {"ok", "oserror"} :
                      fs = execute_action(plan[k], Applied(fs0, plan, k - 1), io).fs

\* A three-step plan whose second step failed after the first changed the
\* filesystem: the third step was never attempted.
C1_Witness ==
    /\ TurnOver
    /\ Len(plan) = 3
    /\ Len(calls) = 2
    /\ calls[1].outcome = "ok"
    /\ calls[2].outcome = "fail"
    /\ fs # fs0

\* C2: halt before step k.  (a) Whenever the boundary check of a step finds
\* halt_requested set, the next step of the turn appends the halt notice for
\* that step and changes neither the filesystem nor the calls made.  (b) Once
\* a halt notice naming step k is in the log, it is the last entry of the
\* turn, it was emitted with cancellation disabled, execute_action has been
\* called for steps 1..k-1 only, all of which succeeded and whose effects are
\* the filesystem's state (no rollback), and neither the stopping nor the
\* completion entry was appended.
C2_HaltedState ==
    \A h \in EntriesOf("halted") :
        LET k == Gained[h].n
        IN  /\ h = Len(Gained)
            /\ k \in 1..Len(plan)
            /\ Len(calls) = k - 1
            /\ CallsArePrefix
            /\ \A j \in 1..Len(calls) : calls[j].outcome = "ok"
            /\ fs = Applied(fs0, plan, k - 1)
            /\ EntriesOf("stopped") = {} /\ EntriesOf("completed") = {}
            /\ \A e \in 1..Len(events) :
                  Len(events[e].log) = Len(history) => ~events[e].cancel
            /\ pc \in {"y240", "idle"}

C2_HaltedStep ==
    (AtBoundary /\ controls.halt_requested)
    => /\ pc' = "y240"
       /\ history' = Append(history, Entry("halted", Len(calls) + 1, Len(plan),
                        "Execution halted by user request before step", NoAction))
       /\ fs' = fs
       /\ calls' = calls

C2_HaltBeforeStep == [](C2_HaltedState) /\ [][C2_HaltedStep]_vars

\* A three-step plan halted before its second step, the first step's effect
\* still in place.
C2_Witness ==
    /\ TurnOver
    /\ Len(plan) = 3
    /\ EntriesOf("halted") # {}
    /\ Gained[Len(Gained)].n = 2
    /\ fs # fs0
    /\ fs = Applied(fs0, plan, 1)

\* C3: sandbox.  Every call whose path resolves outside the workspace root
\* returns the "outside the allowed workspace" failure, and every path of the
\* filesystem that was created or changed lies inside the workspace root.
Escapes(path) ==
    path.given /\ ~IsPrefix(WORKSPACE_DIR, resolve(joinpath(WORKSPACE_DIR, path)))

C3_Sandbox ==
    /\ \A j \in 1..Len(calls) :
          (calls[j].action.isdict /\ calls[j].action.type # ""
           /\ Escapes(calls[j].action.path))
          => /\ calls[j].outcome = "fail"
             /\ calls[j].msg = "Error: Path is outside the allowed workspace."
    /\ \A p \in DOMAIN fs :
          (p \notin DOMAIN InitFs \/ fs[p] # InitFs[p]) => IsPrefix(WORKSPACE_DIR, p)

\* C5: the reset of every turn.  While a turn is in flight halt_requested is
\* set only if request_halt has run since that turn's reset, whatever earlier
\* turns left behind; so a halt notice is appended only in a turn whose reset
\* was followed by request_halt.
C5_ResetEveryTurn ==
    /\ (pc # "idle" /\ controls.halt_requested) => halt_after_reset
    /\ EntriesOf("halted") # {} => halt_after_reset

\* The first turn was halted (the flag was left set); the second turn's plan
\* ran to completion with no request_halt after its reset.
C5_Witness ==
    /\ TurnOver
    /\ turn = 2
    /\ \E j \in 1..hist0 : history[j].kind = "halted"
    /\ EntriesOf("completed") # {}
    /\ ~halt_after_reset

\* The events of the turn whose log ends with a halt notice, a stopping
\* entry or a completion entry of this turn.
TerminalKinds == {"halted", "stopped", "completed"}
TerminalEvents ==
    {j \in 1..Len(events) :
        /\ Len(events[j].log) > hist0
        /\ events[j].log[Len(events[j].log)].kind \in TerminalKinds}
TerminalSaid ==
    pc # "idle" /\ Len(Gained) > 0 /\ Gained[Len(Gained)].kind \in TerminalKinds

\* C6 as stated: no event follows the halt, stopping or completion event.
C6_NoEventAfterTerminal == \A j \in TerminalEvents : j = Len(events)

\* C6 as amended: after its halt, stopping or completion event the turn
\* appends no entry, calls execute_action no more and leaves the filesystem
\* alone; the events that follow (at most two: line 267 after a failure, and
\* line 301) repeat the same log with cancellation disabled.
C6_QuietState ==
    /\ Cardinality(TerminalEvents) <= 3
    /\ \A j \in TerminalEvents :
          /\ ~events[j].cancel
          /\ events[j].log = history
          /\ \A l \in (j + 1)..Len(events) : l \in TerminalEvents /\ events[l].at \in {267, 301}

C6_QuietStep ==
    TerminalSaid => (history' = history /\ fs' = fs /\ calls' = calls)

C6_TerminalIsQuiet == [](C6_QuietState) /\ [][C6_QuietStep]_vars

\* A failed plan: the stopping event, then the events of lines 267 and 301.
C6_Witness ==
    /\ TurnOver
    /\ EntriesOf("stopped") # {}
    /\ Cardinality(TerminalEvents) = 3

\* C7: completion.  (a) When a turn is over and every step of its plan was
\* called and succeeded, all N actions were applied in plan order, and the
\* last entry is the completion entry, emitted with cancellation disabled.
\* (b) The completion entry exists only in such a run: never after a halt
\* notice or a failed step.  (c) The plan [create_folder app, create_file
\* app/main.txt "hi"] on the start-up tree leaves directory app holding
\* main.txt with content "hi".
ExamplePlan ==
    <<Action("create_folder", P_app, ""), Action("create_file", P_main, "hi")>>

AllStepsSucceeded ==
    /\ Len(plan) >= 1
    /\ Len(calls) = Len(plan)
    /\ \A j \in 1..Len(calls) : calls[j].outcome = "ok"

C7_Completion ==
    /\ (TurnOver /\ AllStepsSucceeded)
       => /\ CallsArePrefix
          /\ fs = Applied(fs0, plan, Len(plan))
          /\ Gained[Len(Gained)].kind = "completed"
          /\ \A e \in 1..Len(events) :
                Len(events[e].log) = Len(history) => ~events[e].cancel
    /\ EntriesOf("completed") # {}
       => /\ AllStepsSucceeded
          /\ EntriesOf("completed") = {Len(Gained)}
          /\ EntriesOf("halted") = {} /\ EntriesOf("stopped") = {}
    /\ (TurnOver /\ plan = ExamplePlan /\ fs0 = InitFs /\ AllStepsSucceeded)
       => /\ fs[<<"ws", "app">>] = Dir
          /\ fs[<<"ws", "app", "main.txt">>] = File("hi")
          /\ DOMAIN fs = DOMAIN InitFs \cup {<<"ws", "app">>, <<"ws", "app", "main.txt">>}

C7_Witness ==
    /\ TurnOver
    /\ plan = ExamplePlan
    /\ Gained[Len(Gained)].kind = "completed"
    /\ fs[<<"ws", "app", "main.txt">>] = File("hi")

\* C8: an informational reply with message m bypasses the executor and the
\* log gains exactly one entry over the turn, whose content is m.
C8_OneEntry ==
    (TurnOver /\ raw # <<>> /\ Parsed.ok
     /\ Parsed.value.response_type = "informational" /\ Parsed.value.message.given)
    => /\ calls = <<>>
       /\ fs = fs0
       /\ Len(Gained) = 1
       /\ Gained[1].text = Parsed.value.message.text

\* C9: a plan reply whose plan_steps is absent, no list, or an empty list.
\* From the reply on, the notice is the one entry appended after the status
\* entry, no echo or result entry exists, no event enables cancellation,
\* execute_action is not called, the filesystem is unchanged and the turn is
\* at its last yield or over.
InvalidPlanReply ==
    /\ raw # <<>> /\ Parsed.ok /\ Parsed.value.response_type = "plan"
    /\ \/ Parsed.value.plan_steps.kind \in {"absent", "notlist"}
       \/ Parsed.value.plan_steps.items = <<>>

C9_InvalidPlan ==
    InvalidPlanReply
    => /\ EntriesOf("invalid_plan") = {Len(Gained)}
       /\ Len(Gained) = 2
       /\ EntriesOf("echo") = {} /\ EntriesOf("result") = {}
       /\ \A e \in 1..Len(events) : ~events[e].cancel
       /\ calls = <<>>
       /\ fs = fs0
       /\ pc \in {"y272", "idle"}

\* The turn of a reply with plan_steps: [] is over.
C9_Witness ==
    /\ TurnOver
    /\ raw = Fenced(JsonObject("plan", StepList(<<>>), "strings", NoMessage))
    /\ EntriesOf("invalid_plan") # {}

\* C10: a raw text with no json marker followed by a fence, or whose block
\* is not one JSON value, or whose value is no object with a response_type.
\* From the reply on, exactly one parse error entry was appended (after the
\* status entry), carrying the first 500 characters of the raw text at most,
\* execute_action is not called, the filesystem is unchanged, no event
\* enables cancellation and the turn is at its last yield or over.
WellFormed(t) ==
    \E i \in 1..Len(t) :
        /\ t[i].tok = "fence_json"
        /\ \A m \in 1..(i - 1) : t[m].tok # "fence_json"
        /\ i + 2 <= Len(t)
        /\ t[i + 1].tok = "text"
        /\ t[i + 2].tok \in {"fence", "fence_json"}
        /\ t[i + 1].value.json = "object"
        /\ t[i + 1].value.has_rt

C10_ParseError ==
    (raw # <<>> /\ ~WellFormed(raw))
    => /\ EntriesOf("parse_error") = {Len(Gained)}
       /\ Len(Gained) = 2
       /\ Gained[2].n = (IF RawLen(raw) <= RAW_SHOWN THEN RawLen(raw) ELSE RAW_SHOWN)
       /\ calls = <<>>
       /\ fs = fs0
       /\ \A e \in 1..Len(events) : ~events[e].cancel
       /\ pc \in {"y289", "idle"}

\* The turn of a 600-character reply with no block is over; the entry
\* carries 500 characters.
C10_Witness ==
    /\ TurnOver
    /\ raw = <<Text(NotJson, 600)>>
    /\ Gained[2].kind = "parse_error"
    /\ Gained[2].n = 500

\* C11: execute_action never raises.  Every call returns a result, and every
\* call that did not succeed has its result entry in the log and, once the
\* turn is over, the stopping entry after it.
C11_NeverRaises ==
    \A j \in 1..Len(calls) :
        /\ calls[j].outcome \in {"ok", "fail"}
        /\ (TurnOver /\ calls[j].outcome # "ok")
           => /\ Gained[ResultAt(j)].kind = "result"
              /\ Gained[ResultAt(j) + 1].kind = "stopped"

\* An error is about to happen or is being handled: the model call is
\* pending, the step about to be called raises, a step has failed, or the
\* generator stands at the yield of an error entry.
ErrorInFlight ==
    /\ pc \notin {"idle", "y130", "y230", "y240", "y267", "y278", "y283"}
    /\ pc = "y247" => execute_action(plan[step], fs, "ok").outcome = "raise"
    /\ pc = "y253" => ~success

\* C12: no error leaves the turn handler.  (a) A turn in which an error is
\* about to happen or is being handled can always take its next step, up to
\* the final yield.  (b) A finished turn whose
\* model call failed gained the status entry and the "An unexpected error
\* occurred" entry, made no call and left the filesystem alone.  (c) A
\* finished turn whose reply did not parse, whose plan was invalid, or one of
\* whose steps raised or failed has the entry describing it.  (d) The last
\* event of a finished turn is the yield of line 301, cancellation disabled.
C12_ErrorsStayInside ==
    /\ ErrorInFlight => ENABLED TurnStep
    /\ (TurnOver /\ raw = <<>>)
       => /\ Len(Gained) = 2
          /\ Gained[2].kind = "unexpected_error"
          /\ calls = <<>>
          /\ fs = fs0
    /\ (TurnOver /\ raw # <<>> /\ ~Parsed.ok) => EntriesOf("parse_error") # {}
    /\ (TurnOver /\ InvalidPlanReply) => EntriesOf("invalid_plan") # {}
    /\ (TurnOver /\ raw # <<>> /\ Parsed.ok /\ Parsed.value.response_type = "plan"
        /\ plan_is_valid(Parsed.value) /\ join_raises(Parsed.value))
       => Gained[Len(Gained)].kind = "unexpected_error"
    /\ \A j \in 1..Len(calls) :
          /\ (TurnOver /\ calls[j].outcome = "raise")
             => Gained[Len(Gained)].kind = "unexpected_error"
          /\ (TurnOver /\ calls[j].outcome = "fail")
             => (Gained[ResultAt(j)].text \notin SuccessTexts
                 /\ Gained[Len(Gained)].kind = "stopped")
    /\ TurnOver
       => /\ events[Len(events)].at = 301
          /\ ~events[Len(events)].cancel
          /\ events[Len(events)].log = history

\* The model call failed and the turn is over.
C12_Witness ==
    /\ TurnOver
    /\ raw = <<>>
    /\ EntriesOf("unexpected_error") # {}

\* C13: steps run strictly in plan order.  In every state the calls made are
\* steps 1..j of the plan, each once, in increasing order; the echo of step j
\* was emitted (yield 247) before its call and, unless the call raised, its
\* result right after it (yield 253); the call of the step in flight is made
\* only after the results of all steps before it.  In every step of the turn
\* the filesystem and the record of calls change only by the call of line 250:
\* the generator stands at the echo of the step, the echo is the last entry
\* emitted, the call is that of the step after the last one called, and its
\* result event follows in the same step.
C13_InOrderState ==
    /\ CallsArePrefix
    /\ pc = "y247" => Len(calls) = step - 1
    /\ pc = "y253" => Len(calls) = step
    /\ \A j \in 1..Len(calls) :
          /\ Len(events) >= 2 * j + 2
          /\ events[2 * j + 2].at = 247
          /\ events[2 * j + 2].log = SubSeq(history, 1, hist0 + 2 * j + 1)
          /\ Gained[2 * j + 1].kind = "echo"
          /\ Gained[2 * j + 1].n = j
          /\ Gained[2 * j + 1].action = plan[j]
          /\ calls[j].outcome # "raise"
             => /\ Len(events) >= 2 * j + 3
                /\ events[2 * j + 3].at = 253
                /\ events[2 * j + 3].log = SubSeq(history, 1, hist0 + ResultAt(j))
                /\ Gained[ResultAt(j)].kind = "result"
                /\ Gained[ResultAt(j)].n = j
                /\ Gained[ResultAt(j)].text = calls[j].msg
          /\ j < Len(calls) => calls[j].outcome = "ok"

C13_InOrderStep ==
    (fs' # fs \/ calls' # calls)
    => /\ pc = "y247"
       /\ step = Len(calls) + 1
       /\ events[Len(events)].at = 247
       /\ events[Len(events)].log = history
       /\ history[Len(history)].kind = "echo"
       /\ history[Len(history)].n = step
       /\ EntriesOf("result") = {ResultAt(j) : j \in 1..Len(calls)}
       /\ \E io \in {"ok", "oserror"} :
            LET r == execute_action(plan[step], fs, io)
            IN  /\ fs' = r.fs
                /\ calls' = Append(calls, Call(step, plan[step], r))
                /\ r.outcome # "raise"
                   => /\ pc' = "y253"
                      /\ history' = Append(history, Entry("result", step, Len(plan),
                                                          r.msg, plan[step]))
                      /\ events' = Append(events, Event(history', TRUE, 253))

C13_InOrder == []C13_InOrderState /\ [][C13_InOrderStep]_vars

\* A finished turn whose plan ran three steps, each changing the filesystem.
C13_Witness ==
    /\ TurnOver
    /\ Len(calls) = 3
    /\ \A j \in 1..3 : calls[j].outcome = "ok"
    /\ Applied(fs0, plan, 1) # fs0
    /\ Applied(fs0, plan, 2) # Applied(fs0, plan, 1)
    /\ fs # Applied(fs0, plan, 2)

\* The path an action of SpecFs is applied to.
TargetOf(a) == resolve(joinpath(WORKSPACE_DIR, a.path))

IsWrite(a) == a.type \in {"create_file", "edit_file"}

\* Calls j and j + 1 write different contents to the same path, and the
\* operating system fails neither.
TwoWrites(j) ==
    /\ IsWrite(calls[j].action)
    /\ IsWrite(calls[j + 1].action)
    /\ calls[j].action.path = calls[j + 1].action.path
    /\ calls[j].action.content # calls[j + 1].action.content
    /\ calls[j].io = "ok"
    /\ calls[j + 1].io = "ok"

\* The same action under the other of the two verbs.
OtherVerb(a) ==
    [a EXCEPT !.type = IF a.type = "create_file" THEN "edit_file" ELSE "create_file"]

\* create_file and edit_file differ only in the verb: the call under the
\* other verb returns the same outcome and leaves the same tree, and on success
\* the messages are "File Created" and "File Edited".
SameButVerb(j) ==
    LET a == calls[j].action
        o == execute_action(OtherVerb(a), calls[j].before, calls[j].io)
    IN  /\ o.outcome = calls[j].outcome
        /\ o.fs = calls[j].after
        /\ calls[j].outcome = "ok"
           => /\ calls[j].msg = (IF a.type = "create_file" THEN "File Created"
                                 ELSE "File Edited")
              /\ o.msg = (IF a.type = "create_file" THEN "File Edited"
                          ELSE "File Created")

\* p is free for a file or folder named so: no ancestor of it is a file.
NoFileAbove(f, p) == \A a \in parents(p) : ~IsFile(f, a)

\* C14 as stated: for every path inside the workspace, two writes of
\* different contents to it (create_file or edit_file each, no operating
\* system error) both succeed and leave exactly the second content, and the
\* two verbs differ only in the message.
C14_Overwrite ==
    /\ \A j \in 1..(Len(calls) - 1) :
          TwoWrites(j)
          => /\ calls[j].outcome = "ok"
             /\ calls[j + 1].outcome = "ok"
             /\ calls[j + 1].after[TargetOf(calls[j].action)]
                    = File(calls[j + 1].action.content)
    /\ \A j \in 1..Len(calls) : IsWrite(calls[j].action) => SameButVerb(j)

\* C14, amended: the same for every path inside the workspace that is not a
\* directory and has no file among its ancestors; the second write changes
\* nothing but the content of the file.
C14_LastWriteWins ==
    /\ \A j \in 1..(Len(calls) - 1) :
          LET t == TargetOf(calls[j].action)
          IN  (/\ TwoWrites(j)
               /\ ~IsDir(calls[j].before, t)
               /\ NoFileAbove(calls[j].before, t))
              => /\ calls[j].outcome = "ok"
                 /\ calls[j + 1].outcome = "ok"
                 /\ calls[j].after[t] = File(calls[j].action.content)
                 /\ calls[j + 1].after
                        = (t :> File(calls[j + 1].action.content)) @@ calls[j].after
                 /\ DOMAIN calls[j + 1].after = DOMAIN calls[j].after
    /\ \A j \in 1..Len(calls) : IsWrite(calls[j].action) => SameButVerb(j)

\* create_file "hi" then edit_file "yo" on app/main.txt, the folder app
\* missing at first: the file holds "yo".
C14_Witness ==
    /\ Len(calls) = 2
    /\ TwoWrites(1)
    /\ calls[1].action.type = "create_file"
    /\ calls[2].action.type = "edit_file"
    /\ ~Exists(calls[1].before, <<"ws", "app">>)
    /\ calls[1].outcome = "ok"
    /\ calls[2].outcome = "ok"
    /\ IsFile(fs, <<"ws", "app", "main.txt">>)
    /\ fs[<<"ws", "app", "main.txt">>].content = "yo"

\* Calls j and j + 1 are create_folder on the same path, and the operating
\* system fails neither.
TwoFolders(j) ==
    /\ calls[j].action.type = "create_folder"
    /\ calls[j + 1].action = calls[j].action
    /\ calls[j].io = "ok"
    /\ calls[j + 1].io = "ok"

\* C15 as stated: for every path inside the workspace, create_folder applied
\* twice (no operating system error) succeeds both times, the second leaves
\* the tree as the first left it, and after the first the path and all its
\* ancestors are directories.
C15_Idempotent ==
    \A j \in 1..(Len(calls) - 1) :
        TwoFolders(j)
        => /\ calls[j].outcome = "ok"
           /\ calls[j + 1].outcome = "ok"
           /\ calls[j + 1].after = calls[j].after
           /\ \A q \in parents(TargetOf(calls[j].action)) \cup {TargetOf(calls[j].action)} :
                  IsDir(calls[j].after, q)

\* C15, amended: the same for every path inside the workspace that is not a
\* file and has no file among its ancestors; the first application adds the
\* missing directories and nothing else.  On a path that is a file or lies
\* below one, both applications fail and leave the tree alone.
C15_IdempotentOnFreePath ==
    \A j \in 1..(Len(calls) - 1) :
        LET t == TargetOf(calls[j].action)
            free == ~IsFile(calls[j].before, t) /\ NoFileAbove(calls[j].before, t)
        IN  TwoFolders(j)
            => /\ free
                  => /\ calls[j].outcome = "ok"
                     /\ calls[j + 1].outcome = "ok"
                     /\ calls[j].msg = "Folder created/ensured"
                     /\ calls[j + 1].msg = "Folder created/ensured"
                     /\ \A q \in parents(t) \cup {t} : IsDir(calls[j].after, q)
                     /\ \A q \in DOMAIN calls[j].before :
                            calls[j].after[q] = calls[j].before[q]
                     /\ DOMAIN calls[j].after = DOMAIN calls[j].before \cup parents(t) \cup {t}
               /\ ~free
                  => /\ calls[j].outcome = "fail"
                     /\ calls[j + 1].outcome = "fail"
                     /\ calls[j].after = calls[j].before
               /\ calls[j + 1].after = calls[j].after

\* create_folder app/main.txt twice on the untouched workspace: the first
\* made app and app/main.txt, the second changed nothing.
C15_Witness ==
    /\ Len(calls) = 2
    /\ TwoFolders(1)
    /\ calls[1].before = InitFs
    /\ calls[1].outcome = "ok"
    /\ calls[2].outcome = "ok"
    /\ IsDir(fs, <<"ws", "app">>)
    /\ IsDir(fs, <<"ws", "app", "main.txt">>)

\* The yields of a plan run that follow an append to the log.
PlanYields == {230, 247, 253, 240, 260}

\* C16: the log only grows over a turn.  The log of each event is a prefix of
\* the log of the next, and of the log as it stands; during a plan run every
\* event of the summary, an echo, a result, the halt notice or the stopping
\* notice carries exactly one entry more than the event before, and so does
\* the completion event; the log holds one summary, one echo per step begun,
\* one result per call that returned, one halt notice if the run was halted
\* and at most one final status.  No step of the program shortens or rewrites
\* the log.
C16_AppendOnlyState ==
    /\ \A e \in 1..(Len(events) - 1) :
          /\ IsPrefix(events[e].log, events[e + 1].log)
          /\ Len(events[e + 1].log) <= Len(events[e].log) + 1
          /\ events[e + 1].at \in PlanYields
             => Len(events[e + 1].log) = Len(events[e].log) + 1
          /\ (events[e + 1].at = 267 /\ all_steps_succeeded)
             => /\ Len(events[e + 1].log) = Len(events[e].log) + 1
                /\ events[e + 1].log[Len(events[e + 1].log)].kind = "completed"
    /\ events # <<>> => events[Len(events)].log = history
    /\ hist0 <= Len(history)
    /\ EntriesOf("summary") # {}
       => /\ Cardinality(EntriesOf("summary")) = 1
          /\ Cardinality(EntriesOf("echo"))
                 = step - (IF execution_halted THEN 1 ELSE 0)
          /\ {Gained[j].n : j \in EntriesOf("echo")}
                 = 1..(step - (IF execution_halted THEN 1 ELSE 0))
          /\ Cardinality(EntriesOf("result"))
                 = Cardinality({j \in 1..Len(calls) : calls[j].outcome # "raise"})
          /\ Cardinality(EntriesOf("halted")) = (IF execution_halted THEN 1 ELSE 0)
          /\ Cardinality(EntriesOf("stopped") \cup EntriesOf("completed")) <= 1

C16_AppendOnlyStep ==
    /\ IsPrefix(history, history')
    /\ Len(history') <= Len(history) + 1

C16_AppendOnly == []C16_AppendOnlyState /\ [][C16_AppendOnlyStep]_vars

\* A finished plan run halted before its third step: summary, two echoes,
\* two results and the halt notice, one entry each.
C16_Witness ==
    /\ TurnOver
    /\ execution_halted
    /\ Len(calls) = 2
    /\ Len(Gained) = 7
    /\ Len(events) = 9

\* The turn ran a plan: the summary of line 229 is in the log.
RanPlan == EntriesOf("summary") # {}

\* The run came to Halted, Failed or Completed: the log ends with the halt
\* notice, the stopping notice or the completion entry.
ReachedTerminal == Len(Gained) > 0 /\ Gained[Len(Gained)].kind \in TerminalKinds

\* No more events than the two opening ones, the summary, two per step, the
\* stopping or completion event, the yield of line 267 and the final one; no
\* step called twice.
BoundedRun ==
    /\ Len(events) <= 2 * Len(plan) + 6
    /\ \A i, j \in 1..Len(calls) : i < j => calls[i].step < calls[j].step

\* C17: every plan run is finite.  Under SpecFair, for every plan and every
\* interleaving of request_halt, a plan run that has started comes to its end;
\* at its end it has reached Halted, Failed or Completed (the halt notice, the
\* stopping notice or the completion entry is in the log); the turn emits at
\* most 2 N + 6 events, and no step is called twice.
C17_Finite ==
    /\ [](BoundedRun /\ ((TurnOver /\ RanPlan) => ReachedTerminal))
    /\ (pc = "y230") ~> TurnOver

\* What holds of C17: every turn comes to its end within 2 N + 6 events and
\* calls no step twice.
C17_Terminates == []BoundedRun /\ ((pc # "idle") ~> TurnOver)

\* The halt flag is set while the generator stands at pc.
HaltPendingAt(at) == pc = at /\ controls.halt_requested /\ pc' # pc

LastSaid == history'[Len(history')]

\* C18: the halt flag is read only at step boundaries.  With the flag set
\* after the boundary check of step i (the generator stands at the echo of
\* step i), the step is called all the same, its mutation is the whole of what
\* execute_action does, and its result event follows.  The flag first acts at
\* the next boundary: after a successful step i < N the halt notice names
\* step i + 1 and nothing is called; after a failed step the run stops as
\* Failed; after a successful step N the run is Completed, with no halt
\* notice.  The run turns to Halted only at a boundary check, and
\* request_halt itself changes nothing but the flag.
C18_HaltState ==
    /\ (pc = "y247" /\ controls.halt_requested) => ENABLED (StepExecute \/ StepRaises)
    /\ EntriesOf("halted") # {} => execution_halted
    /\ (EntriesOf("stopped") # {} \/ EntriesOf("completed") # {})
       => EntriesOf("halted") = {}

C18_HaltStep ==
    /\ HaltPendingAt("y247")
       => \E io \in {"ok", "oserror"} :
            LET r == execute_action(plan[step], fs, io)
            IN  /\ fs' = r.fs
                /\ calls' = Append(calls, Call(step, plan[step], r))
                /\ r.outcome # "raise"
                   => /\ pc' = "y253"
                      /\ LastSaid = Entry("result", step, Len(plan), r.msg, plan[step])
                      /\ events'[Len(events')] = Event(history', TRUE, 253)
    /\ HaltPendingAt("y253")
       => /\ UNCHANGED <<fs, calls>>
          /\ ~success => (pc' = "y260" /\ LastSaid.kind = "stopped")
          /\ (success /\ step = Len(plan))
             => (pc' = "y267" /\ LastSaid.kind = "completed" /\ ~execution_halted')
          /\ (success /\ step < Len(plan))
             => (pc' = "y240" /\ LastSaid.kind = "halted" /\ LastSaid.n = step + 1)
    /\ (execution_halted' /\ ~execution_halted) => (AtBoundary /\ halt_seen)
    /\ (pc # "idle" /\ controls' # controls)
       => UNCHANGED <<pc, history, fs, locals, events, calls>>

C18_HaltAtBoundaries == []C18_HaltState /\ [][C18_HaltStep]_vars

\* The halt flag was set after the boundary check of the last of two steps,
\* the first of which changed the filesystem; the step is about to be called.
C18_Witness ==
    /\ pc = "y247"
    /\ controls.halt_requested
    /\ Len(plan) = 2
    /\ step = 2
    /\ fs # fs0

\* The element is an object that lacks a type or a path (line 49).
Lacks(a) == a.isdict /\ (a.type = "" \/ ~a.path.given)

\* C19: every element of plan_steps carries type and path before the plan is
\* executed.  Every action applied to the filesystem (every call that
\* succeeded) belongs to a plan none of whose elements lacks type or path.
C19_ValidatedBeforeRun ==
    (\E j \in 1..Len(calls) : calls[j].outcome = "ok")
    => \A k \in 1..Len(plan) : ~Lacks(plan[k])

\* The kind of the entry the turn appended last before event e ("none" when
\* the turn had appended nothing yet).
SaidBefore(e) ==
    IF Len(events[e].log) > hist0
    THEN events[e].log[Len(events[e].log)].kind
    ELSE "none"

\* C20: the halt button is enabled only while a plan is running.  The events
\* with cancellation enabled are exactly those of the plan summary (yield
\* 230), of a step echo (yield 247) and of a step result (yield 253); the
\* events before the plan starts, those of the halt notice, the stopping
\* notice and the completion, every event of a turn that ran no plan, and the
\* last event of every turn have it disabled.
C20_CancelOnlyInPlan ==
    /\ \A e \in 1..Len(events) :
          /\ events[e].cancel <=> SaidBefore(e) \in {"summary", "echo", "result"}
          /\ events[e].cancel <=> events[e].at \in {230, 247, 253}
          /\ e <= 2 => ~events[e].cancel
          /\ ~RanPlan => ~events[e].cancel
    /\ TurnOver => ~events[Len(events)].cancel

\* A finished plan run of one failed step: the events of the summary, the
\* echo and the result had cancellation enabled, the others not.
C20_Witness ==
    /\ TurnOver
    /\ Len(calls) = 1
    /\ calls[1].outcome = "fail"
    /\ {e \in 1..Len(events) : events[e].cancel} = {3, 4, 5}
    /\ Len(events) = 8

====
